---- MODULE Spec2Model ----
(***************************************************************************)
(* The realtime relay of src/server.js (lines 79-264): the player registry, *)
(* the connection gate, the state relay, the two backend pipelines and the  *)
(* stale-session sweep.  Every handler of the event loop is one action.     *)
(*                                                                          *)
(* A connection is named by the order in which it was made; an admitted     *)
(* connection's uuid is modelled as that number, so the insertion order of  *)
(* the `players` Map is the order of the `players` sequence.                *)
(***************************************************************************)
EXTENDS Integers, Sequences, FiniteSets, TLC

\* ---------------------------------------------------------------- constants
MAX_PLAYERS == 8
STALE_TIMEOUT == 15000
SWEEP_INTERVAL == 10000
PROMPT_LIMIT == 500

\* ------------------------------------------------------------------- bounds
\* connections made in Spec and SpecRelay
MaxConn == 3
\* connections made in SpecGate, after the MAX_PLAYERS - 1 it starts with
GateConn == 3
\* clock steps in Spec and SpecRelay, and in SpecGate
MaxTicks == 4
GateTicks == 3
\* inbound `state` messages in SpecRelay, and in Spec and SpecGate
MaxStateMsgs == 2
PipeStateMsgs == 1
\* inbound `ai` and `narrative` messages and malformed frames in Spec
MaxRequests == 1
\* connections and clock steps in SpecPipe, and its `ai` and `narrative`
\* messages and malformed frames
PipeConn == 2
PipeTicks == 4
PipeRequests == 2
\* connections made in SpecOrder, and the frames received in it
OrderConn == 3
OrderFrames == 3
\* sockets closed by their clients
MaxCloses == 1
\* distinct truthy snapshots a client may send
MaxData == 1

\* The clock advances in thirds of the stale threshold, so that a session can
\* be exactly STALE_TIMEOUT old at a sweep.
TickMs == STALE_TIMEOUT \div 3

\* ------------------------------------------------------------------- values
\* `state: null` of a fresh player (line 91)
NULL == -1
\* msg.data after JSON.parse: the number 0 (falsy) or an object {x: k}, k > 0
Data == 0..MaxData
\* no excludeId argument (line 124, 261)
NoId == 0

\* JavaScript truthiness of a snapshot value
Truthy(d) == d # NULL /\ d # 0

\* msg.prompt after JSON.parse: missing, a string of some length, or a number
PromptMissing == [kind |-> "undefined", len |-> 0]
PromptNumber == [kind |-> "number", len |-> 0]
PromptString(n) == [kind |-> "string", len |-> n]
Prompts == {PromptMissing, PromptNumber, PromptString(0), PromptString(3),
            PromptString(PROMPT_LIMIT + 1)}
\* a test that takes every prompt for a truthy one
TruthyPromptAlways(p) == TRUE

\* truthiness of msg.prompt (the number is a non-zero one)
TruthyPrompt(p) == \/ p.kind = "number"
                   \/ p.kind = "string" /\ p.len > 0
\* msg.prompt.slice(0, 500) of a string
Slice(p) == PromptString(IF p.len > PROMPT_LIMIT THEN PROMPT_LIMIT ELSE p.len)
\* msg.prompt || ''
PromptOrEmpty(p) == IF TruthyPrompt(p) THEN p ELSE PromptString(0)

\* msg.settlementId of the narrative message of session c, in the shape of a
\* prompt: a backend call carries the one or the other
Settlement(c) == [kind |-> "settlementId", len |-> c]
\* a frame that is no message: a text JSON.parse throws on, the text `null`
\* (msg.type throws), or a JSON value whose type is none of the three
Malformed == {"unparseable", "null", "untyped"}
\* msg.npcList and msg.history of a narrative message: arrays or absent
\* ("lists"), or values the template of handleNarrative throws on ("other")
NarrativeShapes == {"lists", "other"}
\* what the backend call of handleNarrative comes back with
NarrativeResponses == {"object", "null", "scalar", "unparseable", "error"}
\* what the backend call of handleAI comes back with
AIResponses == {"text", "error"}

VARIABLES
  players,    \* the Map `players`, in insertion order: <<[id, lastSeen, state]>>
  ws,         \* per connection, the state of its WebSocket
  now,        \* Date.now()
  nextSweep,  \* when the setInterval callback is due
  pending,    \* backend calls awaited by handleAI / handleNarrative
  issued,     \* number of backend calls issued so far
  ev,         \* the handler that ran last and its input
  sent,       \* per connection, the messages delivered to it by that handler
  dropped,    \* per connection, the messages that handler sent on it while not OPEN
  leaves,     \* the bag of `leave` messages delivered so far: <<recipient, id>> |-> count
  inbox,      \* per connection, the `state` frames received on it, in order
  handled,    \* per connection, how many of them its message handler has run for
  relayed,    \* per connection, the relays of those delivered to it: <<sender, ordinal>>
  budget      \* what the exploration may still do

vars == <<players, ws, now, nextSweep, pending, issued, ev, sent, dropped, leaves,
          inbox, handled, relayed, budget>>

\* -------------------------------------------------------------- the sockets
\* ws.readyState: 1 OPEN, 2 CLOSING, 3 CLOSED.  "closing" is a socket the
\* client is closing, "terminated" one the sweep terminated, "rejected" one
\* the gate closed; all three are CLOSING until the close event.
readyState(st) == CASE st = "open" -> 1
                    [] st \in {"closing", "terminated", "rejected"} -> 2
                    [] OTHER -> 3

\* a sweep that does not terminate the socket
terminateNothing(st) == st

\* ws.terminate(): an open socket becomes CLOSING, it is destroyed
terminate(st) == IF st = "open" THEN "terminated" ELSE st

Conns == 1..Len(ws)
Ids(P) == {P[i].id : i \in 1..Len(P)}
Quiet(n) == [c \in 1..n |-> <<>>]

\* players.get(id): the index of the entry, 0 when there is none
Index(P, id) == IF id \in Ids(P) THEN CHOOSE i \in 1..Len(P) : P[i].id = id ELSE 0

\* a delete that leaves the entry in the Map
DeleteNothing(P, id) == P

\* players.delete(id)
Delete(P, id) == SelectSeq(P, LAMBDA p : p.id # id)

\* ws.send(raw) on socket c: delivered only when the socket is OPEN
Send(S, W, c, msg) == IF readyState(W[c]) = 1
                      THEN [S EXCEPT ![c] = Append(@, msg)]
                      ELSE S

\* ws.send(raw) on socket c: discarded by the socket when it is not OPEN
Discard(D, W, c, msg) == IF readyState(W[c]) = 1
                         THEN D
                         ELSE [D EXCEPT ![c] = Append(@, msg)]


\* -------------------------------------------------------- outbound messages
Full == [type |-> "full"]
Welcome(id, list) == [type |-> "welcome", id |-> id, players |-> list]
Join(id) == [type |-> "join", id |-> id]
Leave(id) == [type |-> "leave", id |-> id]
State(id, d) == [type |-> "state", id |-> id, data |-> d]
Code(prompt, author) ==
  [type |-> "code", code |-> "text", prompt |-> prompt, author |-> author]
CodeError(error, prompt) ==
  [type |-> "code_error", error |-> error, prompt |-> prompt]
NarrativeResult(sid, result) ==
  [type |-> "narrative_result", settlementId |-> sid, result |-> result]
NarrativeError(sid, error) ==
  [type |-> "narrative_error", settlementId |-> sid, error |-> error]

\* ------------------------------------------------------------- the registry
\* getPlayerStates(): the entries whose state is truthy, in Map order
getPlayerStates(P) ==
  LET Q == SelectSeq(P, LAMBDA p : Truthy(p.state))
  IN [i \in 1..Len(Q) |-> [id |-> Q[i].id, data |-> Q[i].state]]

RECURSIVE broadcastFrom(_, _, _, _, _, _)

\* a loop that stops at the first socket that is not OPEN
broadcastFromAborting(i, S, P, W, msg, excludeId) ==
  IF i > Len(P) THEN S
  ELSE IF P[i].id # excludeId /\ readyState(W[P[i].id]) # 1 THEN S
  ELSE broadcastFrom(i + 1,
         IF P[i].id # excludeId
         THEN [S EXCEPT ![P[i].id] = Append(@, msg)]
         ELSE S,
         P, W, msg, excludeId)

\* the loop of broadcast(), from the i-th entry of the Map on
broadcastFrom(i, S, P, W, msg, excludeId) ==
  IF i > Len(P) THEN S
  ELSE broadcastFrom(i + 1,
         IF P[i].id # excludeId /\ readyState(W[P[i].id]) = 1
         THEN [S EXCEPT ![P[i].id] = Append(@, msg)]
         ELSE S,
         P, W, msg, excludeId)

\* a broadcast that forgets its excludeId
broadcastToAll(S, P, W, msg, excludeId) == broadcastFrom(1, S, P, W, msg, NoId)

\* broadcast(msg, excludeId): S is what has been delivered so far
broadcast(S, P, W, msg, excludeId) == broadcastFrom(1, S, P, W, msg, excludeId)

\* the loop of broadcastAll()
RECURSIVE broadcastAllFrom(_, _, _, _, _)
broadcastAllFrom(i, S, P, W, msg) ==
  IF i > Len(P) THEN S
  ELSE broadcastAllFrom(i + 1,
         IF readyState(W[P[i].id]) = 1
         THEN [S EXCEPT ![P[i].id] = Append(@, msg)]
         ELSE S,
         P, W, msg)

\* broadcastAll(msg)
broadcastAll(S, P, W, msg) == broadcastAllFrom(1, S, P, W, msg)

\* how many `leave` messages for id are among msgs
LeaveCount(msgs, id) ==
  Cardinality({i \in 1..Len(msgs) : msgs[i] = Leave(id)})

\* the bag of `leave` messages delivered, as <<recipient, id>> |-> count,
\* extended by what a handler delivered
Logged(L, S) ==
  LET New == {p \in (DOMAIN S) \X (DOMAIN S) : LeaveCount(S[p[1]], p[2]) > 0}
  IN [p \in DOMAIN L \cup New |->
        (IF p \in DOMAIN L THEN L[p] ELSE 0) + LeaveCount(S[p[1]], p[2])]

\* how many `leave` messages for id were ever delivered to r
Leaves(r, id) == IF <<r, id>> \in DOMAIN leaves THEN leaves[<<r, id>>] ELSE 0

\* a socket that hands no message to its handler while a backend call of its
\* session is awaited
InflowIdle(c) == /\ ws[c] \in {"open", "terminated"}
                 /\ \A call \in pending : call.author # c

\* the socket still hands inbound messages to its message handler: an open
\* socket, or one the sweep terminated while data of it was buffered
Inflow(c) == ws[c] \in {"open", "terminated"}

\* ----------------------------------------------------------- the connection
\* a gate that compares with > instead of >=
connectionOffByOne(P, W, t) ==
  LET c == Len(W) + 1
      W1 == Append(W, "open")
  IN IF Len(P) > MAX_PLAYERS
     THEN [players |-> P,
           ws |-> Append(W, "rejected"),
           sent |-> Send(Quiet(c), W1, c, Full)]
     ELSE LET P1 == Append(P, [id |-> c, lastSeen |-> t, state |-> NULL])
              S1 == Send(Quiet(c), W1, c, Welcome(c, getPlayerStates(P1)))
          IN [players |-> P1,
              ws |-> W1,
              sent |-> broadcast(S1, P1, W1, Join(c), c)]

\* an admission that broadcasts the join without excluding the newcomer
connectionJoiningSelf(P, W, t) ==
  LET c == Len(W) + 1
      W1 == Append(W, "open")
  IN IF Len(P) >= MAX_PLAYERS
     THEN [players |-> P,
           ws |-> Append(W, "rejected"),
           sent |-> Send(Quiet(c), W1, c, Full)]
     ELSE LET P1 == Append(P, [id |-> c, lastSeen |-> t, state |-> NULL])
              S1 == Send(Quiet(c), W1, c, Welcome(c, getPlayerStates(P1)))
          IN [players |-> P1,
              ws |-> W1,
              sent |-> broadcast(S1, P1, W1, Join(c), NoId)]

\* wss.on('connection') for the socket numbered Len(W) + 1, at time t: what
\* the registry and the sockets are afterwards and what was delivered
connection(P, W, t) ==
  LET c == Len(W) + 1
      W1 == Append(W, "open")
  IN IF Len(P) >= MAX_PLAYERS
     THEN [players |-> P,
           ws |-> Append(W, "rejected"),
           sent |-> Send(Quiet(c), W1, c, Full)]
     ELSE LET P1 == Append(P, [id |-> c, lastSeen |-> t, state |-> NULL])
              S1 == Send(Quiet(c), W1, c, Welcome(c, getPlayerStates(P1)))
          IN [players |-> P1,
              ws |-> W1,
              sent |-> broadcast(S1, P1, W1, Join(c), c)]

\* --------------------------------------------------------------------- Init
\* the server after k connections made at time 0 (k = 0: after construction)
RECURSIVE Connected(_)
Connected(k) ==
  IF k = 0
  THEN [players |-> <<>>, ws |-> <<>>, sent |-> <<>>, leaves |-> << >>,
        ev |-> [type |-> "listen", c |-> 0]]
  ELSE LET s == Connected(k - 1)
           r == connection(s.players, s.ws, 0)
       IN [players |-> r.players, ws |-> r.ws, sent |-> r.sent,
           leaves |-> Logged(s.leaves, r.sent),
           ev |-> [type |-> "connection", c |-> k, size |-> Len(s.players)]]

InitAfter(k) ==
  /\ players = Connected(k).players
  /\ ws = Connected(k).ws
  /\ sent = Connected(k).sent
  /\ dropped = Quiet(k)
  /\ leaves = Connected(k).leaves
  /\ ev = Connected(k).ev
  /\ now = 0
  /\ nextSweep = SWEEP_INTERVAL
  /\ pending = {}
  /\ issued = 0
  /\ inbox = Quiet(k)
  /\ handled = [c \in 1..k |-> 0]
  /\ relayed = Quiet(k)

Init ==
  /\ InitAfter(0)
  /\ budget = [conn |-> MaxConn, ticks |-> MaxTicks, msgs |-> PipeStateMsgs,
               reqs |-> MaxRequests, closes |-> MaxCloses]

InitRelay ==
  /\ InitAfter(0)
  /\ budget = [conn |-> MaxConn, ticks |-> MaxTicks, msgs |-> MaxStateMsgs,
               reqs |-> 0, closes |-> MaxCloses]

\* few sessions, several requests
InitPipe ==
  /\ InitAfter(0)
  /\ budget = [conn |-> PipeConn, ticks |-> PipeTicks, msgs |-> PipeStateMsgs,
               reqs |-> PipeRequests, closes |-> MaxCloses]

\* frames queue up on the sockets
InitOrder ==
  /\ InitAfter(0)
  /\ budget = [conn |-> OrderConn, ticks |-> 0, msgs |-> OrderFrames,
               reqs |-> 0, closes |-> MaxCloses]

\* the gate exploration starts one short of a full registry
InitGate ==
  /\ InitAfter(MAX_PLAYERS - 1)
  /\ budget = [conn |-> GateConn, ticks |-> GateTicks, msgs |-> PipeStateMsgs,
               reqs |-> 0, closes |-> MaxCloses]

\* ------------------------------------------------------------------ actions
\* wss.on('connection')
Connect ==
  /\ budget.conn > 0
  /\ LET r == connection(players, ws, now)
     IN /\ players' = r.players
        /\ ws' = r.ws
        /\ sent' = r.sent
  /\ dropped' = Quiet(Len(ws'))
  /\ ev' = [type |-> "connection", c |-> Len(ws) + 1, size |-> Len(players)]
  /\ leaves' = Logged(leaves, sent')
  /\ inbox' = Append(inbox, <<>>)
  /\ handled' = Append(handled, 0)
  /\ relayed' = Append(relayed, <<>>)
  /\ budget' = [budget EXCEPT !.conn = @ - 1]
  /\ UNCHANGED <<now, nextSweep, pending, issued>>

\* the `state` branch of the message handler of socket c, for msg.data = d
onState(c, d) ==
  /\ LET i == Index(players, c)
     IN players' = IF i # 0
                   THEN [players EXCEPT ![i].lastSeen = now, ![i].state = d]
                   ELSE players
  /\ sent' = broadcast(Quiet(Len(ws)), players', ws, State(c, d), c)
  /\ dropped' = Quiet(Len(ws))
  /\ leaves' = Logged(leaves, sent')
  /\ UNCHANGED <<ws, now, nextSweep, pending, issued>>

\* ws.on('message'), msg.type === 'state': a frame arrives while none is
\* waiting and the handler runs for it at once
MessageState(c, d) ==
  /\ Inflow(c)
  /\ budget.msgs > 0
  /\ handled[c] = Len(inbox[c])
  /\ onState(c, d)
  /\ ev' = [type |-> "state", c |-> c, data |-> d]
  /\ budget' = [budget EXCEPT !.msgs = @ - 1]
  /\ UNCHANGED <<inbox, handled, relayed>>

\* a `state` frame with data d arrives on socket c and waits for the event
\* loop to run the message handler
Receive(c, d) ==
  /\ ws[c] = "open"
  /\ budget.msgs > 0
  /\ inbox' = [inbox EXCEPT ![c] = Append(@, d)]
  /\ sent' = Quiet(Len(ws))
  /\ dropped' = Quiet(Len(ws))
  /\ ev' = [type |-> "frame", c |-> c, data |-> d]
  /\ budget' = [budget EXCEPT !.msgs = @ - 1]
  /\ UNCHANGED <<players, ws, now, nextSweep, pending, issued, leaves, handled,
                 relayed>>

\* a socket that emits its newest frame first
nextFrameNewest(q, k) == Len(q)

\* the frame the socket emits 'message' for next, of the frames q received
\* when k were emitted: the oldest one waiting
nextFrame(q, k) == k + 1

\* ws.on('message'), msg.type === 'state', for the next waiting frame of c
Dispatch(c) ==
  /\ Inflow(c)
  /\ handled[c] < Len(inbox[c])
  /\ LET n == nextFrame(inbox[c], handled[c])
     IN /\ onState(c, inbox[c][n])
        /\ ev' = [type |-> "state", c |-> c, data |-> inbox[c][n], n |-> n]
        /\ relayed' = [r \in Conns |-> IF sent'[r] # <<>>
                                       THEN Append(relayed[r], <<c, n>>)
                                       ELSE relayed[r]]
  /\ handled' = [handled EXCEPT ![c] = @ + 1]
  /\ UNCHANGED <<inbox, budget>>

\* a close handler that is registered on rejected sockets too
CloseEventLeaving(c) ==
  /\ ws[c] \in {"closing", "terminated", "rejected"}
  /\ ws' = [ws EXCEPT ![c] = "closed"]
  /\ players' = Delete(players, c)
  /\ sent' = broadcast(Quiet(Len(ws)), players', ws', Leave(c), NoId)
  /\ dropped' = Quiet(Len(ws))
  /\ ev' = [type |-> "close", c |-> c, was |-> ws[c], member |-> c \in Ids(players)]
  /\ leaves' = Logged(leaves, sent')
  /\ UNCHANGED <<now, nextSweep, pending, issued, budget, inbox, handled, relayed>>

\* ws.on('close'); a socket the gate rejected has no close handler
CloseEvent(c) ==
  /\ ws[c] \in {"closing", "terminated", "rejected"}
  /\ ws' = [ws EXCEPT ![c] = "closed"]
  /\ IF ws[c] = "rejected"
     THEN /\ players' = players
          /\ sent' = Quiet(Len(ws))
     ELSE /\ players' = Delete(players, c)
          /\ sent' = broadcast(Quiet(Len(ws)), players', ws', Leave(c), NoId)
  /\ dropped' = Quiet(Len(ws))
  /\ ev' = [type |-> "close", c |-> c, was |-> ws[c], member |-> c \in Ids(players)]
  /\ leaves' = Logged(leaves, sent')
  /\ UNCHANGED <<now, nextSweep, pending, issued, budget, inbox, handled, relayed>>

\* the client closes its socket, or the connection drops: the socket is
\* CLOSING until its close event
ClientClosing(c) ==
  /\ ws[c] = "open"
  /\ budget.closes > 0
  /\ ws' = [ws EXCEPT ![c] = "closing"]
  /\ sent' = Quiet(Len(ws))
  /\ dropped' = Quiet(Len(ws))
  /\ ev' = [type |-> "closing", c |-> c]
  /\ budget' = [budget EXCEPT !.closes = @ - 1]
  /\ UNCHANGED <<players, now, nextSweep, pending, issued, leaves, inbox, handled,
               relayed>>

\* time passes; the sweep runs when it is due
Tick ==
  /\ budget.ticks > 0
  /\ now + TickMs <= nextSweep
  /\ now' = now + TickMs
  /\ sent' = Quiet(Len(ws))
  /\ dropped' = Quiet(Len(ws))
  /\ ev' = [type |-> "tick", c |-> 0]
  /\ budget' = [budget EXCEPT !.ticks = @ - 1]
  /\ UNCHANGED <<players, ws, nextSweep, pending, issued, leaves, inbox, handled,
               relayed>>

RECURSIVE reap(_, _, _, _, _)

\* a cleanup that terminates the stale sockets and keeps their entries
reapKeeping(ids, t, P, W, S) ==
  [players |-> P,
   ws |-> [c \in DOMAIN W |->
             IF \E i \in 1..Len(P) : P[i].id = c /\ t - P[i].lastSeen > STALE_TIMEOUT
             THEN terminate(W[c]) ELSE W[c]],
   sent |-> S]

\* a loop whose iterator loses its place when an entry is deleted: the entry
\* after a deleted one is skipped
reapSkipping(ids, t, P, W, S) ==
  IF ids = <<>> THEN [players |-> P, ws |-> W, sent |-> S]
  ELSE LET id == Head(ids)
           i == Index(P, id)
       IN IF i # 0 /\ t - P[i].lastSeen > STALE_TIMEOUT
          THEN LET W1 == [W EXCEPT ![id] = terminate(@)]
                   P1 == Delete(P, id)
               IN reap(IF Len(ids) > 1 THEN Tail(Tail(ids)) ELSE <<>>, t, P1, W1,
                       broadcast(S, P1, W1, Leave(id), NoId))
          ELSE reap(Tail(ids), t, P, W, S)

\* the loop of the stale cleanup over the ids the Map held, in order
reap(ids, t, P, W, S) ==
  IF ids = <<>> THEN [players |-> P, ws |-> W, sent |-> S]
  ELSE LET id == Head(ids)
           i == Index(P, id)
       IN IF i # 0 /\ t - P[i].lastSeen > STALE_TIMEOUT
          THEN LET W1 == [W EXCEPT ![id] = terminate(@)]
                   P1 == Delete(P, id)
               IN reap(Tail(ids), t, P1, W1, broadcast(S, P1, W1, Leave(id), NoId))
          ELSE reap(Tail(ids), t, P, W, S)

\* setInterval(..., 10000): the stale cleanup
Sweep ==
  /\ now >= nextSweep
  /\ LET r == reap([i \in 1..Len(players) |-> players[i].id], now, players, ws,
                   Quiet(Len(ws)))
     IN /\ players' = r.players
        /\ ws' = r.ws
        /\ sent' = r.sent
  /\ nextSweep' = now + SWEEP_INTERVAL
  /\ dropped' = Quiet(Len(ws))
  /\ ev' = [type |-> "sweep", c |-> 0,
            stale |-> {players[i].id : i \in {j \in 1..Len(players) :
                         now - players[j].lastSeen > STALE_TIMEOUT}}]
  /\ leaves' = Logged(leaves, sent')
  /\ UNCHANGED <<now, pending, issued, budget, inbox, handled, relayed>>

\* a handler whose catch block closes the socket
MessageMalformedClosing(c, kind) ==
  /\ Inflow(c)
  /\ budget.reqs > 0
  /\ ws' = [ws EXCEPT ![c] = IF @ = "open" THEN "closing" ELSE @]
  /\ sent' = Quiet(Len(ws))
  /\ dropped' = Quiet(Len(ws))
  /\ ev' = [type |-> "malformed", c |-> c, kind |-> kind]
  /\ budget' = [budget EXCEPT !.reqs = @ - 1]
  /\ UNCHANGED <<players, now, nextSweep, pending, issued, leaves, inbox, handled,
                 relayed>>

\* ws.on('message') for a frame that is no message: JSON.parse or msg.type
\* throws and the catch block logs, or no branch is taken
MessageMalformed(c, kind) ==
  /\ Inflow(c)
  /\ budget.reqs > 0
  /\ sent' = Quiet(Len(ws))
  /\ dropped' = Quiet(Len(ws))
  /\ ev' = [type |-> "malformed", c |-> c, kind |-> kind]
  /\ budget' = [budget EXCEPT !.reqs = @ - 1]
  /\ UNCHANGED <<players, ws, now, nextSweep, pending, issued, leaves, inbox,
                 handled, relayed>>

\* a backend call: its serial number, its sub-protocol, the id handed to the
\* handler, and the prompt (handleAI) or settlementId (handleNarrative)
Call(n, kind, author, prompt) ==
  [n |-> n, kind |-> kind, author |-> author, prompt |-> prompt]

\* a dispatcher that takes every message of a session for a sign of life
MessageAITouching(c, prompt, apiKey) ==
  /\ Inflow(c)
  /\ budget.reqs > 0
  /\ players' = [i \in 1..Len(players) |->
                   IF players[i].id = c
                   THEN [players[i] EXCEPT !.lastSeen = now]
                   ELSE players[i]]
  /\ sent' = Quiet(Len(ws))
  /\ dropped' = Quiet(Len(ws))
  /\ ev' = [type |-> "ai", c |-> c, prompt |-> prompt, apiKey |-> apiKey]
  /\ budget' = [budget EXCEPT !.reqs = @ - 1]
  /\ UNCHANGED <<ws, now, nextSweep, pending, issued, leaves, inbox, handled,
                 relayed>>

\* ws.on('message'), msg.type === 'ai': handleAI runs up to its await, or the
\* code_error of line 114 is sent, or msg.prompt.slice throws and is caught
MessageAI(c, prompt, apiKey) ==
  /\ Inflow(c)
  /\ budget.reqs > 0
  /\ IF TruthyPrompt(prompt) /\ apiKey
     THEN IF prompt.kind = "string"
          THEN /\ pending' = pending \cup {Call(issued + 1, "ai", c, Slice(prompt))}
               /\ issued' = issued + 1
               /\ sent' = Quiet(Len(ws))
               /\ dropped' = Quiet(Len(ws))
          ELSE /\ sent' = Quiet(Len(ws))
               /\ dropped' = Quiet(Len(ws))
               /\ UNCHANGED <<pending, issued>>
     ELSE LET msg == CodeError("Missing API key or prompt", PromptOrEmpty(prompt))
          IN /\ sent' = Send(Quiet(Len(ws)), ws, c, msg)
             /\ dropped' = Discard(Quiet(Len(ws)), ws, c, msg)
             /\ UNCHANGED <<pending, issued>>
  /\ ev' = [type |-> "ai", c |-> c, prompt |-> prompt, apiKey |-> apiKey]
  /\ budget' = [budget EXCEPT !.reqs = @ - 1]
  /\ UNCHANGED <<players, ws, now, nextSweep, leaves, inbox, handled, relayed>>

\* a reply that looks neither for the entry nor at its socket
replyErrorUnchecked(S, P, W, authorId, msg) ==
  [S EXCEPT ![authorId] = Append(@, msg)]

\* the reply of the catch blocks: players.get(authorId), then p.ws.send when
\* the entry exists and its socket is OPEN
replyError(S, P, W, authorId, msg) ==
  IF Index(P, authorId) # 0 /\ readyState(W[authorId]) = 1
  THEN [S EXCEPT ![authorId] = Append(@, msg)]
  ELSE S

\* ws.on('message'), msg.type === 'narrative': when msg.apiKey is truthy,
\* handleNarrative runs up to its await, or the template of its user message
\* throws (msg.npcList without map, msg.history without join, a null NPC) and
\* its catch block replies; when msg.apiKey is falsy no branch is taken
MessageNarrative(c, apiKey, shape) ==
  /\ Inflow(c)
  /\ budget.reqs > 0
  /\ IF apiKey
     THEN IF shape = "lists"
          THEN /\ pending' = pending \cup
                             {Call(issued + 1, "narrative", c, Settlement(c))}
               /\ issued' = issued + 1
               /\ sent' = Quiet(Len(ws))
          ELSE /\ sent' = replyError(Quiet(Len(ws)), players, ws, c,
                                     NarrativeError(Settlement(c), "TypeError"))
               /\ UNCHANGED <<pending, issued>>
     ELSE /\ sent' = Quiet(Len(ws))
          /\ UNCHANGED <<pending, issued>>
  /\ dropped' = Quiet(Len(ws))
  /\ ev' = [type |-> "narrative", c |-> c, apiKey |-> apiKey, shape |-> shape]
  /\ budget' = [budget EXCEPT !.reqs = @ - 1]
  /\ UNCHANGED <<players, ws, now, nextSweep, leaves, inbox, handled, relayed>>

\* a handleAI that leaves its author out of the broadcast
aiDoneExcluding(S, P, W, call, resp) ==
  IF resp = "text"
  THEN broadcast(S, P, W, Code(call.prompt, call.author), call.author)
  ELSE replyError(S, P, W, call.author, CodeError("backend", call.prompt))

\* handleAI after its await: the call resolved with a text, or rejected
aiDone(S, P, W, call, resp) ==
  IF resp = "text"
  THEN broadcastAll(S, P, W, Code(call.prompt, call.author))
  ELSE replyError(S, P, W, call.author, CodeError("backend", call.prompt))

\* handleNarrative after its await: the call rejected, or resolved with a
\* text that JSON.parse rejects, or parses to null, to an object, or to
\* another value; result.summary of null throws after the broadcast
narrativeDone(S, P, W, call, resp) ==
  CASE resp \in {"error", "unparseable"} ->
         replyError(S, P, W, call.author, NarrativeError(call.prompt, resp))
    [] resp = "null" ->
         replyError(broadcastAll(S, P, W, NarrativeResult(call.prompt, resp)),
                    P, W, call.author, NarrativeError(call.prompt, "TypeError"))
    [] OTHER -> broadcastAll(S, P, W, NarrativeResult(call.prompt, resp))

\* the awaited call of handleAI settles
CompleteAI(call, resp) ==
  /\ call \in pending
  /\ call.kind = "ai"
  /\ pending' = pending \ {call}
  /\ sent' = aiDone(Quiet(Len(ws)), players, ws, call, resp)
  /\ dropped' = Quiet(Len(ws))
  /\ ev' = [type |-> "ai_done", c |-> call.author, call |-> call, resp |-> resp]
  /\ UNCHANGED <<players, ws, now, nextSweep, issued, leaves, budget, inbox, handled,
               relayed>>

\* the awaited call of handleNarrative settles
CompleteNarrative(call, resp) ==
  /\ call \in pending
  /\ call.kind = "narrative"
  /\ pending' = pending \ {call}
  /\ sent' = narrativeDone(Quiet(Len(ws)), players, ws, call, resp)
  /\ dropped' = Quiet(Len(ws))
  /\ ev' = [type |-> "narrative_done", c |-> call.author, call |-> call, resp |-> resp]
  /\ UNCHANGED <<players, ws, now, nextSweep, issued, leaves, budget, inbox, handled,
               relayed>>

\* the handlers of the registry, the relay and the sweep
Relay ==
  \/ Connect
  \/ \E c \in Conns, d \in Data : MessageState(c, d)
  \/ \E c \in Conns : ClientClosing(c)
  \/ \E c \in Conns : CloseEvent(c)
  \/ Tick
  \/ Sweep

\* the relay with frames that wait on their sockets
Order ==
  \/ Connect
  \/ \E c \in Conns, d \in Data : Receive(c, d)
  \/ \E c \in Conns : Dispatch(c)
  \/ \E c \in Conns : ClientClosing(c)
  \/ \E c \in Conns : CloseEvent(c)

\* the handlers of the two backend pipelines
Pipeline ==
  \/ \E c \in Conns, p \in Prompts, k \in BOOLEAN : MessageAI(c, p, k)
  \/ \E c \in Conns, k \in BOOLEAN, sh \in NarrativeShapes :
       MessageNarrative(c, k, sh)
  \/ \E c \in Conns, k \in Malformed : MessageMalformed(c, k)
  \/ \E call \in pending, r \in AIResponses : CompleteAI(call, r)
  \/ \E call \in pending, r \in NarrativeResponses : CompleteNarrative(call, r)

Next == Relay \/ Pipeline

\* the whole server, with few inbound messages
Spec == Init /\ [][Next]_vars
\* the whole server, with fewer sessions and more requests
SpecPipe == InitPipe /\ [][Next]_vars
\* the registry, the relay and the sweep, with more inbound messages
SpecRelay == InitRelay /\ [][Relay]_vars
\* the relay, with frames queued on the sockets and no clock
SpecOrder == InitOrder /\ [][Order]_vars
\* the same handlers around a full registry
SpecGate == InitGate /\ [][Relay]_vars
\* SpecRelay with a clock that runs and a timer that fires: Date.now() advances
\* and the setInterval callback runs whenever it is due
SpecLive == SpecRelay /\ WF_vars(Tick) /\ WF_vars(Sweep)

\* ======================================================================
\* Properties
\* ======================================================================
\* the session is in the registry and its socket is OPEN
Live(c) == c \in Ids(players) /\ readyState(ws[c]) = 1

\* the only delivery of the last handler: msg, to the connections in R
Delivered(R, msg) ==
  \A r \in Conns : sent[r] = IF r \in R THEN <<msg>> ELSE <<>>

\* C1 - Admission limit: the registry never holds more than MAX_PLAYERS
\* sessions; a connection made while it holds MAX_PLAYERS receives `full` and
\* nothing else, its socket is closed by the server, and no socket that was
\* rejected is ever in the registry.
C1_AdmissionLimit ==
  /\ Len(players) <= MAX_PLAYERS
  /\ \A c \in Conns : ws[c] \in {"rejected", "closed"} => c \notin Ids(players)
  /\ (ev.type = "connection" /\ ev.size >= MAX_PLAYERS) =>
       /\ Delivered({ev.c}, Full)
       /\ ws[ev.c] = "rejected"
       /\ Len(players) = ev.size

\* C1 witness: a connection met a full registry and was sent `full`, after
\* the close event of an earlier socket
C1_Witness ==
  /\ ev.type = "connection"
  /\ ev.size = MAX_PLAYERS
  /\ sent[ev.c] = <<Full>>
  /\ \E c \in Conns : ws[c] = "closed"

\* C2 - State relay: when a session of the registry sends `state` with data
\* d, every other session of the registry whose socket is OPEN is delivered
\* exactly one `state` message with the sender's id and d, and nobody else,
\* the sender included, is delivered anything.
C2_StateRelay ==
  (ev.type = "state" /\ ev.c \in Ids(players)) =>
    Delivered({r \in Conns : Live(r) /\ r # ev.c}, State(ev.c, ev.data))

\* C2 witness: a state message was relayed to two peers while the sender's
\* own socket was OPEN
C2_Witness ==
  /\ ev.type = "state"
  /\ Live(ev.c)
  /\ Cardinality({r \in Conns : sent[r] = <<State(ev.c, ev.data)>>}) = 2
  /\ sent[ev.c] = <<>>

\* C3 - Eviction, exactly-once leave: once the sweep has evicted a stale
\* session and the close event of its terminated socket has run, every
\* session of the registry whose socket is OPEN has been delivered the `leave`
\* of the evicted id exactly once; after the sweep itself the same holds for
\* every id it evicted.
C3_EvictionLeaveOnce ==
  /\ ev.type = "sweep" =>
       \A s \in ev.stale : \A r \in Conns : Live(r) => Leaves(r, s) = 1
  /\ (ev.type = "close" /\ ev.was = "terminated") =>
       \A r \in Conns : Live(r) => Leaves(r, ev.c) = 1

\* lastSeen of a session of the registry
LastSeen(c) == players[Index(players, c)].lastSeen
\* the last sweep the clock of the exploration reaches
LastSweep == ((MaxTicks * TickMs) \div SWEEP_INTERVAL) * SWEEP_INTERVAL
\* session c is in the registry and was last seen at t
SeenAt(c, t) == c \in Ids(players) /\ LastSeen(c) = t

\* C4 - Eviction liveness: a session that was last seen at t and sends no
\* further `state` is eventually out of the registry (whenever a sweep more
\* than STALE_TIMEOUT after t lies within the explored time), and it is out
\* at the first such sweep: right after any sweep no session of the registry
\* is more than STALE_TIMEOUT old.
C4_EvictionLiveness ==
  /\ [](ev.type = "sweep" =>
          \A i \in 1..Len(players) : now - players[i].lastSeen <= STALE_TIMEOUT)
  /\ \A c \in 1..MaxConn : \A k \in 0..MaxTicks :
       (k * TickMs + STALE_TIMEOUT < LastSweep) =>
         (SeenAt(c, k * TickMs) ~> ~SeenAt(c, k * TickMs))

\* C4 witness: a sweep found a session more than STALE_TIMEOUT old and
\* removed it, while a younger session stayed
C4_Witness ==
  /\ ev.type = "sweep"
  /\ ev.stale # {}
  /\ ev.stale \cap Ids(players) = {}
  /\ players # <<>>

\* C5 - Code sub-protocol outcome: when the backend call of an accepted `ai`
\* request resolves, every session of the registry whose socket is OPEN, the
\* requester included, is delivered exactly one `code` and nobody a
\* `code_error`; when it rejects, the requester (still in the registry, socket
\* OPEN) is delivered exactly one `code_error` and nobody else anything.  The
\* call is settled once: it is pending no more.
C5_CodeOutcome ==
  ev.type = "ai_done" =>
    /\ ev.call \notin pending
    /\ IF ev.resp = "text"
       THEN Delivered({r \in Conns : Live(r)}, Code(ev.call.prompt, ev.call.author))
       ELSE Delivered({r \in {ev.call.author} : Live(r)},
                      CodeError("backend", ev.call.prompt))

\* C5 witness: a call resolved and its code went to the requester and one more
C5_Witness ==
  /\ ev.type = "ai_done"
  /\ ev.resp = "text"
  /\ Live(ev.call.author)
  /\ Cardinality({r \in Conns : Len(sent[r]) = 1 /\ sent[r][1].type = "code"}) = 2

\* C5 witness of the other outcome: a call rejected and only the requester,
\* of three sessions, was told
C5_WitnessError ==
  /\ ev.type = "ai_done"
  /\ ev.resp = "error"
  /\ Len(players) = 3
  /\ \A r \in Conns : Live(r)
  /\ Cardinality({r \in Conns : sent[r] # <<>>}) = 1

\* C6 - Narrative sub-protocol outcome: when the backend call of a
\* `narrative` request settles (requester in the registry, socket OPEN),
\* either every session whose socket is OPEN is delivered exactly one
\* `narrative_result` and nothing else, or the requester is delivered exactly
\* one `narrative_error` and nobody else anything.
C6_NarrativeOutcome ==
  (ev.type = "narrative_done" /\ Live(ev.call.author)) =>
    \/ Delivered({r \in Conns : Live(r)}, NarrativeResult(ev.call.prompt, ev.resp))
    \/ /\ Len(sent[ev.call.author]) = 1
       /\ sent[ev.call.author][1].type = "narrative_error"
       /\ \A r \in Conns \ {ev.call.author} : sent[r] = <<>>

\* the roster of a welcome, as a set
Roster(w) == {w.players[i] : i \in 1..Len(w.players)}

\* C7 - Welcome roster: an admitted connection is delivered one `welcome`
\* with its own id whose roster is exactly the {id, state} of every other
\* session of the registry that has a recorded state, each once.
C7_WelcomeRoster ==
  (ev.type = "connection" /\ ev.c \in Ids(players)) =>
    /\ sent[ev.c] # <<>>
    /\ LET w == sent[ev.c][1]
           Others == {i \in 1..Len(players) :
                        players[i].id # ev.c /\ players[i].state # NULL}
       IN /\ w.type = "welcome"
          /\ w.id = ev.c
          /\ Roster(w) = {[id |-> players[i].id, data |-> players[i].state] : i \in Others}
          /\ Len(w.players) = Cardinality(Others)

\* C8 - State/welcome round trip: when a session of the registry has sent
\* `state` with data d and the next handler admits a connection, the roster
\* of that welcome holds {id: sender, data: d}.
C8_RoundTrip ==
  [][(/\ ev.type = "state"
      /\ ev.c \in Ids(players)
      /\ ev'.type = "connection"
      /\ ev'.c \in Ids(players'))
     => [id |-> ev.c, data |-> ev.data] \in Roster(sent'[ev'.c][1])]_vars

\* C9 - Clean disconnect: when the socket of a session of the registry
\* closes, the session is removed, every remaining session whose socket is
\* OPEN is delivered exactly one `leave` with its id, nobody else is
\* delivered anything, and a closed socket is never delivered anything.
C9_CleanDisconnect ==
  /\ (ev.type = "close" /\ ev.member) =>
       /\ ev.c \notin Ids(players)
       /\ Delivered({r \in Conns : Live(r)}, Leave(ev.c))
  /\ \A c \in Conns : ws[c] = "closed" => sent[c] = <<>> /\ dropped[c] = <<>>

\* C9 witness: a session left a registry of three and both others were told
C9_Witness ==
  /\ ev.type = "close"
  /\ ev.member
  /\ Cardinality({r \in Conns : sent[r] = <<Leave(ev.c)>>}) = 2
  /\ Len(players) = 2

\* an `ai` message whose prompt is missing or empty, or whose key is missing
Invalid(e) ==
  /\ e.type = "ai"
  /\ e.prompt = PromptMissing \/ e.prompt = PromptString(0) \/ ~e.apiKey

\* C10 - Local validation of `ai`: an `ai` message whose prompt is missing or
\* empty, or whose key is missing, makes the handler send exactly one
\* `code_error`, on the requester's socket; no backend call is issued and no
\* other socket is sent anything.
C10_AiValidation ==
  [][Invalid(ev') =>
       /\ pending' = pending
       /\ issued' = issued
       /\ \A r \in 1..Len(ws') :
            sent'[r] \o dropped'[r] =
              IF r = ev'.c
              THEN <<CodeError("Missing API key or prompt", PromptOrEmpty(ev'.prompt))>>
              ELSE <<>>]_vars

\* C10 witness: an empty prompt with a key was answered with a code_error
\* while two other sessions were live
C10_Witness ==
  /\ ev.type = "ai"
  /\ ev.prompt = PromptString(0)
  /\ ev.apiKey
  /\ sent[ev.c] = <<CodeError("Missing API key or prompt", PromptString(0))>>
  /\ Cardinality({r \in Conns : Live(r) /\ r # ev.c}) = 2
  /\ issued = 0

\* C11 - Local validation of `narrative`: a `narrative` message whose key is
\* missing makes the handler send exactly one `narrative_error`, on the
\* requester's socket; no backend call is issued and no other socket is sent
\* anything.
C11_NarrativeValidation ==
  [][(ev'.type = "narrative" /\ ~ev'.apiKey) =>
       /\ pending' = pending
       /\ issued' = issued
       /\ \A r \in 1..Len(ws') :
            LET out == sent'[r] \o dropped'[r]
            IN IF r = ev'.c
               THEN Len(out) = 1 /\ out[1].type = "narrative_error"
               ELSE out = <<>>]_vars

\* the handler that ran last is the completion of a backend call
Completion(e) == e.type \in {"ai_done", "narrative_done"}
\* the call came back with something the handler broadcasts
Succeeded(e) == \/ e.type = "ai_done" /\ e.resp = "text"
                \/ e.type = "narrative_done" /\ e.resp \in {"object", "null", "scalar"}
\* what the handler broadcasts on success
Outcome(e) == IF e.type = "ai_done"
              THEN Code(e.call.prompt, e.call.author)
              ELSE NarrativeResult(e.call.prompt, e.resp)

\* C12 - Requester gone before completion: when a backend call settles whose
\* requester is no longer in the registry, on success every session of the
\* registry whose socket is OPEN is delivered the result, once, and nothing
\* else; on failure nobody is sent anything; the registry and the sockets are
\* as before and the call is pending no more.
C12_RequesterGone ==
  [][(Completion(ev') /\ ev'.call.author \notin Ids(players)) =>
       /\ players' = players
       /\ ws' = ws
       /\ ev'.call \notin pending'
       /\ \A r \in Conns :
            /\ dropped'[r] = <<>>
            /\ sent'[r] = IF Succeeded(ev') /\ Live(r) THEN <<Outcome(ev')>> ELSE <<>>]_vars

\* C12 witness: the sweep evicted the requester, and the code of its call
\* was still delivered to a remaining session
C12_Witness ==
  /\ ev.type = "ai_done"
  /\ ev.resp = "text"
  /\ ev.call.author \notin Ids(players)
  /\ ws[ev.call.author] = "terminated"
  /\ \E r \in Conns : sent[r] = <<Code(ev.call.prompt, ev.call.author)>>

\* C12 witness of the failure: the requester closed its socket, the call
\* rejected, and two sessions remained
C12_WitnessError ==
  /\ Completion(ev)
  /\ ~Succeeded(ev)
  /\ ev.call.author \notin Ids(players)
  /\ Cardinality({r \in Conns : Live(r)}) = 2

\* the effect of the relay's handlers, from the registry, the sockets and the
\* clock alone
RelayEffect ==
  /\ ev'.type = "connection" =>
       LET r == connection(players, ws, now)
       IN players' = r.players /\ ws' = r.ws /\ sent' = r.sent
  /\ ev'.type = "state" =>
       /\ ev'.c \in Ids(players) =>
            /\ players'[Index(players, ev'.c)].state = ev'.data
            /\ players'[Index(players, ev'.c)].lastSeen = now
       /\ \A r \in Conns :
            sent'[r] = IF Live(r) /\ r # ev'.c THEN <<State(ev'.c, ev'.data)>> ELSE <<>>
  /\ ev'.type = "close" /\ ev'.was # "rejected" =>
       /\ Ids(players') = Ids(players) \ {ev'.c}
       /\ \A r \in Conns :
            sent'[r] = IF Live(r) /\ r # ev'.c THEN <<Leave(ev'.c)>> ELSE <<>>
  /\ ev'.type = "sweep" =>
       /\ Ids(players') = Ids(players) \ ev'.stale
       /\ \A c \in ev'.stale : ws'[c] = terminate(ws[c])
  /\ ev'.type \in {"ai", "narrative"} =>
       /\ issued' \in {issued, issued + 1}
       /\ pending' = pending \cup {call \in pending' : call.n = issued + 1}
       /\ Cardinality(pending') = Cardinality(pending) + (issued' - issued)

\* C13 - Non-interference of pending calls: while backend calls are pending,
\* every handler of the relay and of the dispatcher is enabled whenever its
\* socket and the clock allow it, it has the effect the registry, the sockets
\* and the clock determine, and it leaves the pending calls pending; a
\* completion removes its own call only.
C13_NonInterference ==
  /\ [](pending # {} =>
          /\ budget.conn > 0 => ENABLED Connect
          /\ \A c \in Conns :
               /\ (ws[c] \in {"open", "terminated"} /\ budget.msgs > 0) =>
                    \A d \in Data : ENABLED MessageState(c, d)
               /\ (ws[c] \in {"open", "terminated"} /\ budget.reqs > 0) =>
                    /\ \A p \in Prompts : ENABLED MessageAI(c, p, TRUE)
                    /\ ENABLED MessageNarrative(c, TRUE, "lists")
               /\ (ws[c] = "open" /\ budget.closes > 0) => ENABLED ClientClosing(c)
               /\ ws[c] \in {"closing", "terminated"} => ENABLED CloseEvent(c)
          /\ now >= nextSweep => ENABLED Sweep
          /\ (now + TickMs <= nextSweep /\ budget.ticks > 0) => ENABLED Tick)
  /\ [][pending # {} =>
          /\ RelayEffect
          /\ IF Completion(ev')
             THEN pending' = pending \ {ev'.call}
             ELSE pending \subseteq pending']_vars

\* C13 witness: a session relayed a `state` to its peer while two calls of
\* its own were pending, after a sweep had run
C13_Witness ==
  /\ ev.type = "state"
  /\ Cardinality({call \in pending : call.author = ev.c}) = 2
  /\ \E r \in Conns : sent[r] = <<State(ev.c, ev.data)>>
  /\ nextSweep > SWEEP_INTERVAL

\* the relays delivered to r that came from c, as their ordinals on c
From(r, c) ==
  LET Q == SelectSeq(relayed[r], LAMBDA e : e[1] = c)
  IN [i \in 1..Len(Q) |-> Q[i][2]]

\* C14 - Broadcast ordering: the frames of one connection are handled in the
\* order received, each relay is delivered while its frame is handled to
\* every other session of the registry whose socket is OPEN, and so every
\* recipient holds the relays of one sender in the order of its frames: a
\* recipient live for m1 and m2 holds m1's relay before m2's.
C14_BroadcastOrdering ==
  /\ [](\A r \in Conns : \A c \in Conns :
          \A i \in 1..Len(From(r, c)) : \A j \in 1..Len(From(r, c)) :
            i < j => From(r, c)[i] < From(r, c)[j])
  /\ [][(\E c \in Conns : handled'[c] # handled[c]) =>
          /\ ev'.n = handled[ev'.c] + 1
          /\ ev'.data = inbox[ev'.c][ev'.n]
          /\ \A r \in Conns :
               relayed'[r] = IF Live(r) /\ r # ev'.c
                             THEN Append(relayed[r], <<ev'.c, ev'.n>>)
                             ELSE relayed[r]]_vars

\* C14 witness: two different frames of one sender waited together, and a
\* recipient holds the relay of the first before the relay of the second
C14_Witness ==
  \E c \in Conns : \E r \in Conns :
    /\ Len(inbox[c]) = 2
    /\ inbox[c][1] # inbox[c][2]
    /\ handled[c] = 2
    /\ relayed[r] = << <<c, 1>>, <<c, 2>> >>
    /\ ev = [type |-> "state", c |-> c, data |-> inbox[c][2], n |-> 2]

\* C15 - Malformed inbound message: the handler of a frame that cannot be
\* parsed leaves the registry (members, lastSeen, state) and the sockets as
\* they are, sends nothing to anyone and issues no backend call; the sender
\* stays registered with its socket OPEN.
C15_MalformedDropped ==
  [][(ev'.type = "malformed" /\ ev'.kind = "unparseable") =>
       /\ players' = players
       /\ ws' = ws
       /\ pending' = pending
       /\ issued' = issued
       /\ \A r \in Conns : sent'[r] = <<>> /\ dropped'[r] = <<>>]_vars

\* C15 witness: a session with a recorded state and a live peer sent a frame
\* that cannot be parsed, while a backend call was pending
C15_Witness ==
  /\ ev = [type |-> "malformed", c |-> ev.c, kind |-> "unparseable"]
  /\ Live(ev.c)
  /\ players[Index(players, ev.c)].state \in Data
  /\ \E r \in Conns : r # ev.c /\ Live(r)
  /\ pending # {}

\* C16 - Rejection frame: a connection rejected with `full` leaves the
\* registry as it is and no session that was registered is sent anything
\* (no `welcome`, `join` or `leave`); when the rejected socket closes, the
\* registry is again left as it is and nobody is sent anything.
C16_RejectionFrame ==
  [][/\ (ev'.type = "connection" /\ ws'[ev'.c] = "rejected") =>
          /\ players' = players
          /\ \A r \in Conns : sent'[r] = <<>> /\ ws'[r] = ws[r]
          /\ \A i \in 1..Len(sent'[ev'.c]) :
               sent'[ev'.c][i].type \notin {"welcome", "join", "leave"}
          /\ leaves' = leaves
     /\ (ev'.type = "close" /\ ev'.was = "rejected") =>
          /\ players' = players
          /\ \A r \in Conns : sent'[r] = <<>>
          /\ leaves' = leaves]_vars

\* C16 witness: the socket of a rejected connection closed while the
\* registry was full of sessions with OPEN sockets
C16_Witness ==
  /\ ev.type = "close"
  /\ ev.was = "rejected"
  /\ Len(players) = MAX_PLAYERS
  /\ \A i \in 1..Len(players) : readyState(ws[players[i].id]) = 1

\* C17 - Broadcast fan-out tolerance: a handler that broadcasts delivers its
\* message to every session of the registry whose socket is OPEN (the
\* excluded one apart) and to no session whose socket is not, whatever the
\* order of the two kinds in the registry; sessions leave the registry only
\* in the close handler and in the sweep, and enter it only on connection.
C17_FanOutTolerance ==
  [][/\ ev'.type = "state" =>
          \A r \in Conns :
            sent'[r] = IF Live(r) /\ r # ev'.c THEN <<State(ev'.c, ev'.data)>> ELSE <<>>
     /\ (Completion(ev') /\ Succeeded(ev')) =>
          \A r \in Conns :
            (\E i \in 1..Len(sent'[r]) : sent'[r][i] = Outcome(ev')) <=> Live(r)
     /\ ev'.type \in {"state", "ai", "narrative", "malformed", "ai_done",
                      "narrative_done", "tick", "closing"} => Ids(players') = Ids(players)
     /\ Ids(players') \subseteq Ids(players) \cup {Len(ws) + 1}
     /\ Ids(players') # Ids(players) => ev'.type \in {"connection", "close", "sweep"}]_vars

\* C17 witness: the first session of the registry had its socket CLOSING, and
\* the code of a call was delivered to the two sessions after it
C17_Witness ==
  /\ ev.type = "ai_done"
  /\ ev.resp = "text"
  /\ Len(players) = 3
  /\ ws[players[1].id] = "closing"
  /\ sent[players[1].id] = <<>>
  /\ \A i \in 2..3 : sent[players[i].id] = <<Outcome(ev)>>

\* lastSeen and state of the session with id c in the registry P
Fields(P, c) == [lastSeen |-> P[Index(P, c)].lastSeen, state |-> P[Index(P, c)].state]

\* C18 - Session field ownership: lastSeen and state of a session that stays
\* in the registry change only in the handler of a `state` message of that
\* very session, which sets them to the clock and to the data of the message;
\* every other handler leaves them as they are, and the sweep and the close
\* handler only remove entries.
C18_FieldOwnership ==
  [][\A c \in Ids(players) \cap Ids(players') :
       IF ev'.type = "state" /\ ev'.c = c
       THEN Fields(players', c) = [lastSeen |-> now, state |-> ev'.data]
       ELSE Fields(players', c) = Fields(players, c)]_vars

\* C18 witness: a session whose lastSeen and state were set by a `state`
\* message of its own keeps them through an `ai` message of its own, later
C18_Witness ==
  /\ ev.type = "ai"
  /\ ev.c \in Ids(players)
  /\ Fields(players, ev.c).state \in Data
  /\ Fields(players, ev.c).lastSeen = TickMs
  /\ now > TickMs

\* the session is more than STALE_TIMEOUT old at time t
Stale(p, t) == t - p.lastSeen > STALE_TIMEOUT

\* C19 - Reaper threshold: a sweep removes exactly the sessions more than
\* STALE_TIMEOUT old, however many there are: the sessions at most
\* STALE_TIMEOUT old stay, in their order and with their fields, and right
\* after the sweep no session of the registry is more than STALE_TIMEOUT old.
C19_ReaperThreshold ==
  [][ev'.type = "sweep" =>
       /\ players' = SelectSeq(players, LAMBDA p : ~Stale(p, now))
       /\ \A i \in 1..Len(players') : ~Stale(players'[i], now')]_vars

\* C19 witness: one sweep removed two sessions and kept a third that was
\* exactly STALE_TIMEOUT old
C19_Witness ==
  /\ ev.type = "sweep"
  /\ Cardinality(ev.stale) = 2
  /\ Len(players) = 1
  /\ now - players[1].lastSeen = STALE_TIMEOUT

\* an `ai` message with a prompt and a key, or a `narrative` message with a key
Accepted(e) ==
  \/ e.type = "ai" /\ e.apiKey /\ e.prompt \notin {PromptMissing, PromptString(0)}
  \/ e.type = "narrative" /\ e.apiKey

\* C20 - One call per request, no retries: the handler of an accepted `ai` or
\* `narrative` request issues exactly one backend call, which is pending
\* from then on; no other handler issues one, the completion of a failed call
\* included; a completion settles its own call and leaves every other
\* pending call pending, in whatever order the calls complete.
C20_OneCallPerRequest ==
  [][/\ issued' = IF Accepted(ev') THEN issued + 1 ELSE issued
     /\ Cardinality(pending') = Cardinality(pending)
                                 + (IF Accepted(ev') THEN 1 ELSE 0)
                                 - (IF Completion(ev') THEN 1 ELSE 0)
     /\ Completion(ev') => pending' = pending \ {ev'.call}]_vars

\* C21 - Admission sequence: an admitted connection is appended to the
\* registry with no state and lastSeen at the time of admission; what it is
\* delivered starts with a `welcome` of its own id and holds no `join`; every
\* other session of the registry whose socket is OPEN is delivered exactly
\* one `join` of the new id, and nobody else anything; no session is ever
\* delivered the `join` of its own id.
C21_AdmissionSequence ==
  /\ (ev.type = "connection" /\ ev.c \in Ids(players)) =>
       /\ players[Len(players)] = [id |-> ev.c, lastSeen |-> now, state |-> NULL]
       /\ Len(players) = ev.size + 1
       /\ sent[ev.c] # <<>>
       /\ sent[ev.c][1].type = "welcome"
       /\ sent[ev.c][1].id = ev.c
       /\ \A i \in 1..Len(sent[ev.c]) : sent[ev.c][i].type # "join"
       /\ \A r \in Conns \ {ev.c} :
            sent[r] = IF Live(r) THEN <<Join(ev.c)>> ELSE <<>>
  /\ \A r \in Conns : \A i \in 1..Len(sent[r]) : sent[r][i] # Join(r)

\* C21 witness: a connection was admitted after the clock had moved, next to
\* a session whose socket was OPEN and one whose socket was CLOSING
C21_Witness ==
  /\ ev.type = "connection"
  /\ ev.c \in Ids(players)
  /\ now > 0
  /\ Len(players) = 3
  /\ \E r \in Conns : sent[r] = <<Join(ev.c)>>
  /\ \E r \in Ids(players) : ws[r] = "closing" /\ sent[r] = <<>>

\* C22 - No push after removal: a connection that is not in the registry is
\* delivered nothing by any handler (no `state`, `join`, `leave`, `code`,
\* `code_error`, `narrative_result` or `narrative_error`), and it never enters
\* the registry again.
C22_NoPushAfterRemoval ==
  [][\A c \in Conns :
       c \notin Ids(players) => sent'[c] = <<>> /\ c \notin Ids(players')]_vars

\* C22 witness: the sweep evicted a session; the handler of a later invalid
\* `ai` message of it sent a code_error on its socket, which was not
\* delivered
C22_Witness ==
  /\ ev.type = "ai"
  /\ ev.c \notin Ids(players)
  /\ ws[ev.c] = "terminated"
  /\ dropped[ev.c] # <<>>
  /\ sent[ev.c] = <<>>
  /\ players # <<>>

\* C22 witness of a completion: the call of a session that left settled with
\* an error while another session was live, and nobody was delivered anything
C22_WitnessCompletion ==
  /\ Completion(ev)
  /\ ~Succeeded(ev)
  /\ ws[ev.call.author] = "closed"
  /\ \E r \in Conns : Live(r)
  /\ \A r \in Conns : sent[r] = <<>>

\* C23 - Error correlation: the prompt a backend call carries from the
\* handler of its `ai` request is the prompt of that request, whatever its
\* length, and the `code` or `code_error` delivered when the call settles
\* carries the prompt of the call.
C23_ErrorCorrelation ==
  /\ [](ev.type = "ai_done" =>
          \A r \in Conns : \A i \in 1..Len(sent[r]) :
            sent[r][i].prompt = ev.call.prompt)
  /\ [][(ev'.type = "ai" /\ issued' # issued) =>
          \A call \in pending' \ pending : call.prompt = ev'.prompt]_vars

\* C24 - State of a removed session: every `state` message delivered carries
\* the id of a session of the registry, and the handler of a `state` message
\* on a connection whose session is no longer in the registry delivers
\* nothing.
C24_StateOfMember ==
  /\ \A r \in Conns : \A i \in 1..Len(sent[r]) :
       sent[r][i].type = "state" => sent[r][i].id \in Ids(players)
  /\ (ev.type = "state" /\ ev.c \notin Ids(players)) =>
       \A r \in Conns : sent[r] = <<>>

\* C25 - No `ai` message is dropped: the handler of an `ai` message, whatever
\* its prompt and key, either issues one backend call and sends nothing, or
\* issues none and sends exactly one `code_error` on the sender's socket; no
\* other socket is sent anything.
C25_AiNeverDropped ==
  [][ev'.type = "ai" =>
       /\ \A r \in Conns \ {ev'.c} : sent'[r] \o dropped'[r] = <<>>
       /\ LET out == sent'[ev'.c] \o dropped'[ev'.c]
          IN \/ /\ issued' = issued + 1
                /\ Cardinality(pending') = Cardinality(pending) + 1
                /\ out = <<>>
             \/ /\ issued' = issued
                /\ pending' = pending
                /\ Len(out) = 1
                /\ out[1].type = "code_error"]_vars

====
